---- MODULE Spec2Model ----
(***************************************************************************)
(* The Electron main process of the 3CX query agent (src/main.js): the     *)
(* persisted settings store, the lazily built BigQuery and Gemini clients, *)
(* the table schema cache, and the IPC handlers that read and write them.  *)
(* A handler without an await is one action; a handler with awaits is one  *)
(* action per stretch of code between two suspension points.               *)
(***************************************************************************)
EXTENDS Integers, Sequences, FiniteSets, TLC

(***************************************************************************)
(* JavaScript values.  A string is a sequence of atoms (words and          *)
(* whitespace atoms); every value carries its type so that truthiness,     *)
(* trim() and the store defaults are computed as JavaScript computes them. *)
(***************************************************************************)
Undefined == [type |-> "undefined", val |-> <<>>]

Str(s) == [type |-> "string", val |-> s]

NumberValue == [type |-> "number", val |-> <<"7">>]

Truthy(v) == \/ v.type = "number"
             \/ v.type = "string" /\ v.val # <<>>

WhiteSpace == {" ", "\n"}

RECURSIVE TrimStart(_)
TrimStart(s) == IF s # <<>> /\ Head(s) \in WhiteSpace THEN TrimStart(Tail(s)) ELSE s

RECURSIVE TrimEnd(_)
TrimEnd(s) == IF s # <<>> /\ s[Len(s)] \in WhiteSpace
              THEN TrimEnd(SubSeq(s, 1, Len(s) - 1))
              ELSE s

\* String.prototype.trim
Trim(s) == TrimEnd(TrimStart(s))

\* x.trim() is a TypeError unless x is a string
CanTrim(v) == v.type = "string"

(***************************************************************************)
(* JSON texts.  A text is the atom sequence "{" k1 v1 k2 v2 ... "}" or the *)
(* single atom "null"; anything else is a syntax error for JSON.parse.     *)
(***************************************************************************)
IsObjectText(t) == /\ Len(t) >= 2
                   /\ t[1] = "{"
                   /\ t[Len(t)] = "}"
                   /\ (Len(t) - 2) % 2 = 0

IsNullText(t) == t = <<"null">>

JsonParses(t) == IsObjectText(t) \/ IsNullText(t)

\* parsed.k for an object text: the value of member k, undefined when missing
JsonField(t, k) ==
    LET idx == {i \in 1..((Len(t) - 2) \div 2) : t[2 * i] = k}
    IN  IF idx = {} THEN Undefined
        ELSE Str(<<t[2 * (CHOOSE i \in idx : \A j \in idx : j <= i) + 1]>>)

\* JSON.stringify({ clientId, clientSecret })
StringifyPending(id, secret) ==
    Str(<<"{", "clientId">> \o id.val \o <<"clientSecret">> \o secret.val \o <<"}">>)

\* JSON.stringify(tokens)
StringifyTokens(tok) == Str(<<"{", "refresh_token", tok, "}">>)

(***************************************************************************)
(* The electron-store document.                                            *)
(***************************************************************************)
StoreKeys == {"projectId", "datasetId", "geminiKey", "authMethod",
              "serviceAccountJson", "oauthClientId", "oauthClientSecret",
              "oauthTokens", "pendingOauthClient"}

EmptyStore == [k \in StoreKeys |-> Undefined]

\* store.get(key, defaultValue)
StoreGet(st, k, default) == IF st[k] = Undefined THEN default ELSE st[k]

\* store.set(key, value)
StoreSet(st, k, v) == [st EXCEPT ![k] = v]

(***************************************************************************)
(* Error messages, as word sequences.                                      *)
(***************************************************************************)
MsgNoProject == <<"No", "Google", "Cloud", "Project", "ID", "configured.", "Go", "to", "Settings.">>

MsgNoServiceAccount == <<"No", "service", "account", "JSON", "uploaded.">>

MsgNoBrowserAuth == <<"Browser", "auth", "not", "completed.">>

MsgNoGeminiKey == <<"No", "Gemini", "API", "key", "configured.">>

MsgNoDatasetTest == <<"No", "BigQuery", "dataset", "configured.", "Go", "to", "Settings.">>

MsgNoDatasetQuery == <<"No", "BigQuery", "dataset", "configured.">>

MsgInvalidKeyFile == <<"Not", "a", "valid", "service", "account", "JSON", "file.">>

MsgNoOauthClient == <<"OAuth", "client", "credentials", "not", "configured.">>

MsgCouldNotRead == <<"Could", "not", "read", "file:">>

MsgTokenExchange == <<"Token", "exchange", "failed:">>

Mentions(msg, word) == \E i \in 1..Len(msg) : msg[i] = word

(***************************************************************************)
(* The two lazily built clients.                                           *)
(***************************************************************************)
Null == [null |-> TRUE]

NoCredentials == [type |-> Undefined, client_email |-> Undefined]

NoAuthClient == [clientId |-> Undefined, clientSecret |-> Undefined, tokens |-> Undefined]

\* new BigQuery({ projectId, credentials })
ServiceAccountClient(projectId, jsonRaw) ==
    [projectId |-> projectId, mode |-> "credentials",
     credentials |-> [type |-> JsonField(jsonRaw.val, "type"),
                      client_email |-> JsonField(jsonRaw.val, "client_email")],
     authClient |-> NoAuthClient]

\* new BigQuery({ projectId, authClient: oauth2Client })
BrowserClient(projectId, pendingRaw, tokensRaw) ==
    [projectId |-> projectId, mode |-> "authClient",
     credentials |-> NoCredentials,
     authClient |-> [clientId |-> JsonField(pendingRaw.val, "clientId"),
                     clientSecret |-> JsonField(pendingRaw.val, "clientSecret"),
                     tokens |-> JsonField(tokensRaw.val, "refresh_token")]]

\* new BigQuery({ projectId }): Application Default Credentials
AmbientClient(projectId) ==
    [projectId |-> projectId, mode |-> "ambient",
     credentials |-> NoCredentials, authClient |-> NoAuthClient]

Threw(msg) == [threw |-> TRUE, error |-> msg, value |-> Null]

Returned(v) == [threw |-> FALSE, error |-> <<>>, value |-> v]

\* getBigQueryClient without the test of main.js:188
NewBigQueryClientNoTokenTest(st) ==
    LET projectId  == StoreGet(st, "projectId", Undefined)
        authMethod == StoreGet(st, "authMethod", Str(<<"serviceAccount">>))
        jsonRaw    == StoreGet(st, "serviceAccountJson", Undefined)
        tokensRaw  == StoreGet(st, "oauthTokens", Undefined)
        pendingRaw == StoreGet(st, "pendingOauthClient", Str(<<"{", "}">>))
    IN  IF ~Truthy(projectId) THEN Threw(MsgNoProject)
        ELSE IF authMethod = Str(<<"serviceAccount">>)
             THEN IF ~Truthy(jsonRaw) THEN Threw(MsgNoServiceAccount)
                  ELSE Returned(ServiceAccountClient(projectId, jsonRaw))
        ELSE IF authMethod = Str(<<"browser">>)
             THEN Returned(BrowserClient(projectId, pendingRaw, tokensRaw))
        ELSE Returned(AmbientClient(projectId))

\* The client getBigQueryClient constructs when none is cached.
NewBigQueryClient(st) ==
    LET projectId  == StoreGet(st, "projectId", Undefined)
        authMethod == StoreGet(st, "authMethod", Str(<<"serviceAccount">>))
        jsonRaw    == StoreGet(st, "serviceAccountJson", Undefined)
        tokensRaw  == StoreGet(st, "oauthTokens", Undefined)
        pendingRaw == StoreGet(st, "pendingOauthClient", Str(<<"{", "}">>))
    IN  IF ~Truthy(projectId) THEN Threw(MsgNoProject)
        ELSE IF authMethod = Str(<<"serviceAccount">>)
             THEN IF ~Truthy(jsonRaw) THEN Threw(MsgNoServiceAccount)
                  ELSE Returned(ServiceAccountClient(projectId, jsonRaw))
        ELSE IF authMethod = Str(<<"browser">>)
             THEN IF ~Truthy(tokensRaw) THEN Threw(MsgNoBrowserAuth)
                  ELSE Returned(BrowserClient(projectId, pendingRaw, tokensRaw))
        ELSE Returned(AmbientClient(projectId))

\* getBigQueryClient(): the cached client if there is one, else a new one,
\* which the caller's action stores into bigqueryClient.
GetBigQueryClient(cached, st) ==
    IF cached # Null THEN Returned(cached) ELSE NewBigQueryClient(st)

\* getGeminiClient(), likewise for geminiClient.
GetGeminiClient(cached, st) ==
    LET key == StoreGet(st, "geminiKey", Undefined)
    IN  IF cached # Null THEN Returned(cached)
        ELSE IF ~Truthy(key) THEN Threw(MsgNoGeminiKey)
        ELSE Returned([apiKey |-> key])

(***************************************************************************)
(* The warehouse as the handlers see it: the tables each dataset lists, in *)
(* listing order, and the column descriptors in each table's metadata.     *)
(***************************************************************************)
DatasetWithTables == <<"cx">>

DatasetWithoutTables == <<"empty">>

TablesOf(datasetId) ==
    IF datasetId = Str(DatasetWithTables) THEN <<"calls", "queues">> ELSE <<>>

\* meta.schema?.fields || []  (the metadata of "queues" carries no schema)
FieldsOf(datasetId, tableId) ==
    IF tableId = "calls"
    THEN <<[name |-> "direction", type |-> "STRING"],
           [name |-> "timestamp", type |-> "TIMESTAMP"]>>
    ELSE <<>>

EmptyCache == [t \in {} |-> <<>>]

\* tableSchemaCache[table.id] = fields
CachePut(cache, tableId, fields) ==
    [t \in DOMAIN cache \cup {tableId} |-> IF t = tableId THEN fields ELSE cache[t]]

WarehouseErrors == {<<"Access", "Denied:", "Dataset", "cx">>}

OauthErrors == {<<"invalid_grant">>}

(***************************************************************************)
(* Inputs of the handlers.                                                 *)
(***************************************************************************)
ConfigFields == {"projectId", "datasetId", "geminiKey", "authMethod",
                 "oauthClientId", "oauthClientSecret"}

NoFields == [k \in ConfigFields |-> Undefined]

AuthMethods == {Str(<<"serviceAccount">>), Str(<<"browser">>), Str(<<"apiKey">>)}

\* Payloads of config:save: each settings field on its own (the store keeps
\* what earlier saves wrote, so every combination of settings is reached),
\* the settings form filled in or left empty, the sign-in form, and a
\* payload with a field that is not a string.
ConfigPayloads ==
    {[NoFields EXCEPT !.projectId = Str(<<" ", "proj", " ">>)],
     [NoFields EXCEPT !.datasetId = Str(DatasetWithTables)],
     [NoFields EXCEPT !.datasetId = Str(DatasetWithoutTables \o <<" ">>)],
     [NoFields EXCEPT !.geminiKey = Str(<<"AIza", "\n">>)]}
    \cup {[NoFields EXCEPT !.authMethod = m] : m \in AuthMethods}
    \cup {[NoFields EXCEPT !.projectId = Str(<<"proj">>),
                           !.datasetId = Str(DatasetWithTables),
                           !.geminiKey = Str(<<"AIza">>),
                           !.authMethod = Str(<<"apiKey">>)],
          [NoFields EXCEPT !.projectId = Str(<<>>), !.datasetId = Str(<<>>),
                           !.geminiKey = Str(<<>>),
                           !.authMethod = Str(<<"serviceAccount">>)],
          [NoFields EXCEPT !.oauthClientId = Str(<<"id">>),
                           !.oauthClientSecret = Str(<<"secret">>)],
          [NoFields EXCEPT !.projectId = Str(<<"proj">>), !.geminiKey = NumberValue]}

KeyFileA == <<"{", "type", "service_account", "client_email", "a@proj", "}">>

KeyFileTexts == {KeyFileA,
                 <<"{", "type", "authorized_user", "client_email", "u@proj", "}">>,
                 <<"{", "client_email", "a@proj", "}">>,
                 <<"null">>,
                 <<"{", "type">>}

\* what dialog.showOpenDialog resolves to, with the chosen file's content
DialogResults ==
    {[canceled |-> TRUE, filePaths |-> <<>>], [canceled |-> FALSE, filePaths |-> <<>>]}
    \cup {[canceled |-> FALSE, filePaths |-> <<[readable |-> TRUE, text |-> t]>>] :
             t \in KeyFileTexts}
    \cup {[canceled |-> FALSE, filePaths |-> <<[readable |-> FALSE, text |-> <<>>]>>]}

OauthCodes == {Str(<<" ", "4/0Ab", "\n">>), Undefined}

(***************************************************************************)
(* State.                                                                  *)
(***************************************************************************)
VARIABLES
    store,             \* the electron-store document
    bigqueryClient,    \* let bigqueryClient
    geminiClient,      \* let geminiClient
    tableSchemaCache,  \* let tableSchemaCache
    oauthCall,         \* auth:submitOauthCode suspended in getToken, or Null
    testCall,          \* agent:testConnection suspended in a remote call, or Null
    queryCall,         \* agent:query suspended in a remote call, or Null
    ensured,           \* history: a question turn finished schema discovery
                       \* and no config:save emptied the cache since
    opened,            \* the URLs the shell:openExternal handler opened, in order
    normalized,        \* the row given to the normalizer and what it has made of it
    renderer,          \* the window: its question box, buttons, isQuerying and its invokes
    reply              \* what the handler that took the last step returned
                       \* to its invoker; NoReply when that step suspended

vars == <<store, bigqueryClient, geminiClient, tableSchemaCache,
          oauthCall, testCall, queryCall, ensured, opened, normalized, renderer, reply>>

NoReply == [op |-> "none"]

JsNull == [type |-> "null", val |-> <<>>]

\* no row has been given to the normalizer
NotNormalizing == [passes |-> 0, input |-> <<>>, output |-> <<>>]

\* the window as the main process alone sees it: no window is driving it
Detached ==
    [attached |-> FALSE, queryInput |-> Str(<<>>), isQuerying |-> FALSE,
     btnSendDisabled |-> TRUE, btnTestDisabled |-> FALSE,
     asked |-> <<>>, result |-> Null, yielded |-> 0,
     testAsked |-> FALSE, testResult |-> Null]

\* ipcMain takes the window's oldest agent:query invoke
Taken(r) == IF r.attached THEN [r EXCEPT !.asked = Tail(@)] ELSE r

\* ipcMain takes the window's agent:testConnection invoke
TestTaken(r) == IF r.attached THEN [r EXCEPT !.testAsked = FALSE] ELSE r

\* the value a handler returns settles the promise the window awaits
Delivered(r, returned) ==
    IF ~r.attached THEN r
    ELSE IF returned.op = "agent:query"
         THEN [r EXCEPT !.result = returned, !.yielded = @ + 1]
    ELSE IF returned.op = "agent:testConnection"
         THEN [r EXCEPT !.testResult = returned]
    ELSE r

\* the handlers suspended in a remote call
InFlight == (IF oauthCall # Null THEN 1 ELSE 0) + (IF testCall # Null THEN 1 ELSE 0)
            + (IF queryCall # Null THEN 1 ELSE 0)

MaxInFlight == 1

\* an attached window bounds the calls in flight by its own guards
MaySuspend == renderer.attached \/ InFlight < MaxInFlight

Init ==
    /\ store = EmptyStore
    /\ bigqueryClient = Null
    /\ geminiClient = Null
    /\ tableSchemaCache = EmptyCache
    /\ oauthCall = Null
    /\ testCall = Null
    /\ queryCall = Null
    /\ ensured = FALSE
    /\ opened = <<>>
    /\ normalized = NotNormalizing
    /\ renderer = Detached
    /\ reply = NoReply

(***************************************************************************)
(* config:load                                                             *)
(***************************************************************************)
ConfigLoad ==
    /\ reply' = [op |-> "config:load",
                 projectId  |-> StoreGet(store, "projectId", Str(<<>>)),
                 datasetId  |-> StoreGet(store, "datasetId", Str(<<>>)),
                 geminiKey  |-> StoreGet(store, "geminiKey", Str(<<>>)),
                 authMethod |-> StoreGet(store, "authMethod", Str(<<"serviceAccount">>)),
                 hasJsonKey |-> Truthy(StoreGet(store, "serviceAccountJson", Undefined))]
    /\ UNCHANGED <<renderer, normalized, opened, store, bigqueryClient, geminiClient, tableSchemaCache,
                   oauthCall, testCall, queryCall, ensured>>

(***************************************************************************)
(* config:save                                                             *)
(***************************************************************************)
\* if (config.k) store.set(k, config.k.trim()), after the statements before it
SaveTrimmed(acc, config, k) ==
    IF acc.threw \/ ~Truthy(config[k]) THEN acc
    ELSE IF ~CanTrim(config[k]) THEN [threw |-> TRUE, st |-> acc.st]
    ELSE [threw |-> FALSE, st |-> StoreSet(acc.st, k, Str(Trim(config[k].val)))]

\* if (config.authMethod) store.set('authMethod', config.authMethod)
SaveAuthMethod(acc, config) ==
    IF acc.threw \/ ~Truthy(config.authMethod) THEN acc
    ELSE [threw |-> FALSE, st |-> StoreSet(acc.st, "authMethod", config.authMethod)]

\* the four store writes of config:save, in order
SaveFields(st, config) ==
    SaveAuthMethod(
        SaveTrimmed(
            SaveTrimmed(
                SaveTrimmed([threw |-> FALSE, st |-> st], config, "projectId"),
                config, "datasetId"),
            config, "geminiKey"),
        config)

\* config:save without the statement of main.js:84
ConfigSaveKeepsCache(config) ==
    LET saved == SaveFields(store, config)
    IN  /\ store' = saved.st
        /\ IF saved.threw
           THEN /\ reply' = [op |-> "config:save", raised |-> TRUE]
                /\ UNCHANGED <<bigqueryClient, geminiClient, ensured>>
           ELSE /\ bigqueryClient' = Null
                /\ geminiClient' = Null
                /\ ensured' = FALSE
                /\ reply' = [op |-> "config:save", raised |-> FALSE, ok |-> TRUE]
        /\ UNCHANGED <<renderer, normalized, opened, tableSchemaCache, oauthCall, testCall, queryCall>>

ConfigSave(config) ==
    LET saved == SaveFields(store, config)
    IN  /\ store' = saved.st
        /\ IF saved.threw
           THEN /\ reply' = [op |-> "config:save", raised |-> TRUE]
                /\ UNCHANGED <<bigqueryClient, geminiClient, tableSchemaCache, ensured>>
           ELSE /\ bigqueryClient' = Null
                /\ geminiClient' = Null
                /\ tableSchemaCache' = EmptyCache
                /\ ensured' = FALSE
                /\ reply' = [op |-> "config:save", raised |-> FALSE, ok |-> TRUE]
        /\ UNCHANGED <<renderer, normalized, opened, oauthCall, testCall, queryCall>>

(***************************************************************************)
(* auth:pickJsonFile                                                       *)
(***************************************************************************)
\* the outcome without the test of main.js:105-107
PickOutcomeNoTypeCheck(result) ==
    IF result.canceled \/ Len(result.filePaths) = 0
    THEN [accepted |-> FALSE, ok |-> FALSE, error |-> Undefined, email |-> Undefined]
    ELSE LET file == result.filePaths[1]
             raw  == file.text
         IN  IF ~file.readable \/ ~JsonParses(raw) \/ IsNullText(raw)
             THEN [accepted |-> FALSE, ok |-> FALSE,
                   error |-> Str(MsgCouldNotRead \o <<"e.message">>), email |-> Undefined]
             ELSE [accepted |-> TRUE, ok |-> TRUE, error |-> Undefined,
                   email |-> JsonField(raw, "client_email")]

\* the handler's return value and whether it reached the store writes
PickOutcome(result) ==
    IF result.canceled \/ Len(result.filePaths) = 0
    THEN [accepted |-> FALSE, ok |-> FALSE, error |-> Undefined, email |-> Undefined]
    ELSE LET file == result.filePaths[1]
             raw  == file.text
         IN  IF ~file.readable \/ ~JsonParses(raw) \/ IsNullText(raw)
             THEN [accepted |-> FALSE, ok |-> FALSE,
                   error |-> Str(MsgCouldNotRead \o <<"e.message">>), email |-> Undefined]
             ELSE IF \/ ~Truthy(JsonField(raw, "type"))
                     \/ JsonField(raw, "type") # Str(<<"service_account">>)
             THEN [accepted |-> FALSE, ok |-> FALSE,
                   error |-> Str(MsgInvalidKeyFile), email |-> Undefined]
             ELSE [accepted |-> TRUE, ok |-> TRUE, error |-> Undefined,
                   email |-> JsonField(raw, "client_email")]

\* auth:pickJsonFile without the statement of main.js:111
PickJsonFileKeepsClient(result) ==
    LET out == PickOutcome(result)
    IN  /\ reply' = [op |-> "auth:pickJsonFile", ok |-> out.ok,
                     error |-> out.error, email |-> out.email]
        /\ IF out.accepted
           THEN store' = StoreSet(StoreSet(store, "serviceAccountJson",
                                           Str(result.filePaths[1].text)),
                                  "authMethod", Str(<<"serviceAccount">>))
           ELSE UNCHANGED store
        /\ UNCHANGED <<renderer, normalized, opened, bigqueryClient, geminiClient, tableSchemaCache, oauthCall, testCall,
                       queryCall, ensured>>

PickJsonFile(result) ==
    LET out == PickOutcome(result)
    IN  /\ reply' = [op |-> "auth:pickJsonFile", ok |-> out.ok,
                     error |-> out.error, email |-> out.email]
        /\ IF out.accepted
           THEN /\ store' = StoreSet(StoreSet(store, "serviceAccountJson",
                                              Str(result.filePaths[1].text)),
                                     "authMethod", Str(<<"serviceAccount">>))
                /\ bigqueryClient' = Null
           ELSE UNCHANGED <<store, bigqueryClient>>
        /\ UNCHANGED <<renderer, normalized, opened, geminiClient, tableSchemaCache, oauthCall, testCall, queryCall,
                       ensured>>

(***************************************************************************)
(* auth:browserLogin                                                       *)
(***************************************************************************)
BrowserLogin ==
    LET clientId     == StoreGet(store, "oauthClientId", Str(<<>>))
        clientSecret == StoreGet(store, "oauthClientSecret", Str(<<>>))
    IN  /\ IF ~Truthy(clientId) \/ ~Truthy(clientSecret)
           THEN /\ reply' = [op |-> "auth:browserLogin", ok |-> FALSE,
                             error |-> Str(MsgNoOauthClient), authUrl |-> Undefined]
                /\ UNCHANGED store
           ELSE /\ store' = StoreSet(StoreSet(store, "authMethod", Str(<<"browser">>)),
                                     "pendingOauthClient",
                                     StringifyPending(clientId, clientSecret))
                /\ reply' = [op |-> "auth:browserLogin", ok |-> TRUE, error |-> Undefined,
                             authUrl |-> Str(<<"https://", "accounts.google.com">>)]
        /\ UNCHANGED <<renderer, normalized, opened, bigqueryClient, geminiClient, tableSchemaCache,
                       oauthCall, testCall, queryCall, ensured>>

(***************************************************************************)
(* auth:submitOauthCode: up to the await of getToken, then its settlement  *)
(***************************************************************************)
SubmitOauthCode(code) ==
    /\ oauthCall = Null
    /\ IF ~CanTrim(code)
       THEN /\ reply' = [op |-> "auth:submitOauthCode", ok |-> FALSE,
                         error |-> Str(MsgTokenExchange \o <<"e.message">>),
                         pending |-> StoreGet(store, "pendingOauthClient", Undefined)]
            /\ UNCHANGED oauthCall
       ELSE /\ MaySuspend
            /\ oauthCall' = [pending |-> StoreGet(store, "pendingOauthClient", Undefined),
                             clientId |-> JsonField(StoreGet(store, "pendingOauthClient",
                                                             Str(<<"{", "}">>)).val,
                                                    "clientId"),
                             code |-> Str(Trim(code.val))]
            /\ reply' = NoReply
    /\ UNCHANGED <<renderer, normalized, opened, store, bigqueryClient, geminiClient, tableSchemaCache,
                   testCall, queryCall, ensured>>

\* getToken resolves with tokens
GetTokenResolves ==
    /\ oauthCall # Null
    /\ store' = StoreSet(StoreSet(store, "oauthTokens", StringifyTokens("1//rt")),
                         "authMethod", Str(<<"browser">>))
    /\ bigqueryClient' = Null
    /\ oauthCall' = Null
    /\ reply' = [op |-> "auth:submitOauthCode", ok |-> TRUE, error |-> Undefined,
                 pending |-> oauthCall.pending]
    /\ UNCHANGED <<renderer, normalized, opened, geminiClient, tableSchemaCache, testCall, queryCall, ensured>>

\* getToken rejects
GetTokenRejects(msg) ==
    /\ oauthCall # Null
    /\ oauthCall' = Null
    /\ reply' = [op |-> "auth:submitOauthCode", ok |-> FALSE,
                 error |-> Str(MsgTokenExchange \o msg), pending |-> oauthCall.pending]
    /\ UNCHANGED <<renderer, normalized, opened, store, bigqueryClient, geminiClient, tableSchemaCache,
                   testCall, queryCall, ensured>>

(***************************************************************************)
(* agent:testConnection: up to the await of getTables, then one action per *)
(* settlement of getTables and of each getMetadata.  "changed" records     *)
(* whether the call has altered bigqueryClient, geminiClient or the cache. *)
(***************************************************************************)
TestFailed(msg, changed) ==
    [op |-> "agent:testConnection", ok |-> FALSE, error |-> Str(msg),
     changed |-> changed]

TestSucceeded(tables, changed) ==
    [op |-> "agent:testConnection", ok |-> TRUE, tables |-> tables,
     changed |-> changed]

TestConnection ==
    LET got       == GetBigQueryClient(bigqueryClient, store)
        datasetId == StoreGet(store, "datasetId", Undefined)
    IN  /\ testCall = Null
        /\ IF got.threw
           THEN /\ reply' = TestFailed(got.error, FALSE)
                /\ UNCHANGED <<bigqueryClient, testCall>>
           ELSE /\ bigqueryClient' = got.value
                /\ IF ~Truthy(datasetId)
                   THEN /\ reply' = TestFailed(MsgNoDatasetTest, bigqueryClient = Null)
                        /\ UNCHANGED testCall
                   ELSE /\ MaySuspend
                        /\ testCall' = [pc |-> "getTables", bq |-> got.value,
                                        datasetId |-> datasetId, tables |-> <<>>,
                                        next |-> 0, changed |-> bigqueryClient = Null]
                        /\ reply' = NoReply
        /\ renderer' = Delivered(TestTaken(renderer), reply')
        /\ UNCHANGED <<normalized, opened, store, geminiClient, tableSchemaCache, oauthCall, queryCall, ensured>>

TestGetTablesResolves ==
    /\ testCall # Null
    /\ testCall.pc = "getTables"
    /\ LET tables == TablesOf(testCall.datasetId)
       IN  IF Len(tables) = 0
           THEN /\ reply' = TestSucceeded(tables, testCall.changed)
                /\ testCall' = Null
           ELSE /\ testCall' = [testCall EXCEPT !.pc = "getMetadata", !.tables = tables,
                                                !.next = 1]
                /\ reply' = NoReply
    /\ renderer' = Delivered(renderer, reply')
    /\ UNCHANGED <<normalized, opened, store, bigqueryClient, geminiClient, tableSchemaCache, oauthCall,
                   queryCall, ensured>>

TestGetMetadataResolves ==
    /\ testCall # Null
    /\ testCall.pc = "getMetadata"
    /\ LET tableId == testCall.tables[testCall.next]
           cache   == CachePut(tableSchemaCache, tableId,
                               FieldsOf(testCall.datasetId, tableId))
           changed == testCall.changed \/ cache # tableSchemaCache
       IN  /\ tableSchemaCache' = cache
           /\ IF testCall.next = Len(testCall.tables)
              THEN /\ reply' = TestSucceeded(testCall.tables, changed)
                   /\ testCall' = Null
              ELSE /\ testCall' = [testCall EXCEPT !.next = @ + 1, !.changed = changed]
                   /\ reply' = NoReply
    /\ renderer' = Delivered(renderer, reply')
    /\ UNCHANGED <<normalized, opened, store, bigqueryClient, geminiClient, oauthCall, queryCall, ensured>>

\* getTables or getMetadata rejects
TestRemoteRejects(msg) ==
    /\ testCall # Null
    /\ reply' = TestFailed(msg, testCall.changed)
    /\ testCall' = Null
    /\ renderer' = Delivered(renderer, reply')
    /\ UNCHANGED <<normalized, opened, store, bigqueryClient, geminiClient, tableSchemaCache, oauthCall,
                   queryCall, ensured>>

(***************************************************************************)
(* Result values.  A warehouse value is a JavaScript value; an object      *)
(* carries its members as val and, when it has one, its "value" property.  *)
(***************************************************************************)
BigIntValue(digits) == [type |-> "bigint", val |-> <<digits>>]

\* a Date, held as <<year, month, day, hours, minutes, seconds, millis>>
DateValue(parts) == [type |-> "date", val |-> parts]

PlainObject(members) == [type |-> "object", val |-> members]

Wrapper(members, inner) == [type |-> "object", val |-> members, value |-> inner]

\* Number(v) of a bigint: exact up to 2^53, the nearest double beyond
NumberOfBigInt(digits) ==
    IF digits = <<"9007199254740993">> THEN <<"9007199254740992">> ELSE digits

\* Date.prototype.toISOString
ToISOString(p) ==
    <<p[1], "-", p[2], "-", p[3], "T", p[4], ":", p[5], ":", p[6], ".", p[7], "Z">>

\* JSON.stringify of an object with the given members
StringifyObject(members) == <<"{">> \o members \o <<"}">>

\* v.value !== undefined
HasValue(v) == "value" \in DOMAIN v /\ v.value # Undefined

\* the wrapper test made before the date test
serializeValueWrapperFirst(v) ==
    IF v.type \in {"null", "undefined"} THEN JsNull
    ELSE IF v.type = "bigint" THEN [type |-> "number", val |-> NumberOfBigInt(v.val)]
    ELSE IF v.type \in {"object", "date"} /\ HasValue(v) THEN v.value
    ELSE IF v.type = "date" THEN Str(ToISOString(v.val))
    ELSE IF v.type = "object" THEN Str(StringifyObject(v.val))
    ELSE v

\* a string put through JSON.stringify instead of passed through
serializeValueQuotesStrings(v) ==
    IF v.type \in {"null", "undefined"} THEN JsNull
    ELSE IF v.type = "bigint" THEN [type |-> "number", val |-> NumberOfBigInt(v.val)]
    ELSE IF v.type = "date" THEN Str(ToISOString(v.val))
    ELSE IF v.type \in {"object", "date"} /\ HasValue(v) THEN v.value
    ELSE IF v.type \in {"object", "date"} THEN Str(StringifyObject(v.val))
    ELSE IF v.type = "string" THEN Str(<<"\"">> \o v.val \o <<"\"">>)
    ELSE v

serializeValue(v) ==
    IF v.type \in {"null", "undefined"} THEN JsNull
    ELSE IF v.type = "bigint" THEN [type |-> "number", val |-> NumberOfBigInt(v.val)]
    ELSE IF v.type = "date" THEN Str(ToISOString(v.val))
    ELSE IF v.type \in {"object", "date"} /\ HasValue(v) THEN v.value
    ELSE IF v.type \in {"object", "date"} THEN Str(StringifyObject(v.val))
    ELSE v

\* a row is its entries in key order: <<[k |-> key, v |-> value], ...>>
SerializeRow(row) == [i \in 1..Len(row) |-> [k |-> row[i].k, v |-> serializeValue(row[i].v)]]

\* the columns taken from the last row instead of rows[0] (main.js:303)
ColumnsOfLastRow(rows) ==
    IF Len(rows) > 0 THEN [i \in 1..Len(rows[Len(rows)]) |-> rows[Len(rows)][i].k] ELSE <<>>

\* rows.length > 0 ? Object.keys(rows[0]) : []
ColumnsOf(rows) ==
    IF Len(rows) > 0 THEN [i \in 1..Len(rows[1]) |-> rows[1][i].k] ELSE <<>>

QueryResults ==
    {<<>>,
     <<<<[k |-> "calls", v |-> BigIntValue("42")],
         [k |-> "day", v |-> Wrapper(<<"value", "2024-05-01">>, Str(<<"2024-05-01">>))]>>>>,
     <<<<[k |-> "queue", v |-> Str(<<"sales">>)], [k |-> "n", v |-> BigIntValue("7")]>>,
       <<[k |-> "queue", v |-> JsNull],
         [k |-> "extra", v |-> PlainObject(<<"a", "1">>)],
         [k |-> "at", v |-> DateValue(<<"2024", "05", "01", "09", "30", "00", "000">>)]>>>>}

Questions == {Str(<<"How", " ", "many", " ", "calls?">>)}

Sentinel == <<"CANNOT_ANSWER">>

ModelOutputs == {Sentinel, <<" ">> \o Sentinel \o <<"\n">>, <<"SELECT", " ", "1", "\n">>,
                 Sentinel \o <<" ", "because", " ", "no", " ", "table", " ", "fits">>}

ModelErrors == {<<"API", "key", "not", "valid">>}

MsgCannotAnswer == <<"I", "couldn't", "find", "a", "way", "to", "answer", "that">>

(***************************************************************************)
(* agent:query: up to the first await, then one action per settlement of   *)
(* getTables, getMetadata, generateContent and query.                      *)
(***************************************************************************)
\* the schema part of the prompt: one block per cache entry
SchemaText(cache, projectId, datasetId) ==
    [t \in DOMAIN cache |-> [table |-> <<projectId.val, datasetId.val, t>>,
                             cols |-> cache[t]]]

Prompt(cache, projectId, datasetId, question) ==
    [schema |-> SchemaText(cache, projectId, datasetId), question |-> question]

\* the catch of main.js:316 with a prefix before e.message
QueryFailedPrefixed(msg, changed) ==
    [op |-> "agent:query", ok |-> FALSE, error |-> Str(<<"Query", "failed:">> \o msg),
     sql |-> JsNull, changed |-> changed]

QueryFailed(msg, changed) ==
    [op |-> "agent:query", ok |-> FALSE, error |-> Str(msg), sql |-> JsNull,
     changed |-> changed]

\* the sentinel envelope with the model text in place of sql: null (main.js:292)
QueryUnanswerableWithText(changed) ==
    [op |-> "agent:query", ok |-> TRUE, sql |-> Str(Sentinel), rows |-> <<>>,
     columns |-> <<>>, message |-> Str(MsgCannotAnswer), changed |-> changed]

QueryUnanswerable(changed) ==
    [op |-> "agent:query", ok |-> TRUE, sql |-> JsNull, rows |-> <<>>, columns |-> <<>>,
     message |-> Str(MsgCannotAnswer), changed |-> changed]

QueryAnswered(sql, rows, changed) ==
    [op |-> "agent:query", ok |-> TRUE, sql |-> Str(sql),
     rows |-> [i \in 1..Len(rows) |-> SerializeRow(rows[i])],
     columns |-> ColumnsOf(rows), message |-> JsNull, changed |-> changed]

\* agent:query without the test of main.js:247
DatasetNeverMissing(datasetId) == FALSE

\* if (!datasetId) throw new Error('No BigQuery dataset configured.')
DatasetMissing(datasetId) == ~Truthy(datasetId)

\* agent:query without the test of main.js:250
AgentQueryAlwaysLists(userQuestion) ==
    LET bq        == GetBigQueryClient(bigqueryClient, store)
        ai        == GetGeminiClient(geminiClient, store)
        datasetId == StoreGet(store, "datasetId", Undefined)
        projectId == StoreGet(store, "projectId", Undefined)
        call      == [pc |-> "getTables", bq |-> bq.value, ai |-> ai.value,
                      datasetId |-> datasetId, projectId |-> projectId,
                      question |-> userQuestion, tables |-> <<>>, next |-> 0,
                      prompt |-> Null, sql |-> <<>>,
                      changed |-> bigqueryClient = Null \/ geminiClient = Null]
    IN  /\ queryCall = Null
        /\ IF bq.threw
           THEN /\ reply' = QueryFailed(bq.error, FALSE)
                /\ UNCHANGED <<bigqueryClient, geminiClient, queryCall, ensured>>
           ELSE /\ bigqueryClient' = bq.value
                /\ IF ai.threw
                   THEN /\ reply' = QueryFailed(ai.error, bigqueryClient = Null)
                        /\ UNCHANGED <<geminiClient, queryCall, ensured>>
                   ELSE /\ geminiClient' = ai.value
                        /\ IF DatasetMissing(datasetId)
                           THEN /\ reply' = QueryFailed(MsgNoDatasetQuery, call.changed)
                                /\ UNCHANGED <<queryCall, ensured>>
                           ELSE /\ MaySuspend
                                /\ reply' = NoReply
                                /\ queryCall' = call
                                /\ UNCHANGED ensured
        /\ renderer' = Delivered(Taken(renderer), reply')
        /\ UNCHANGED <<normalized, opened, store, tableSchemaCache, oauthCall, testCall>>

AgentQuery(userQuestion) ==
    LET bq        == GetBigQueryClient(bigqueryClient, store)
        ai        == GetGeminiClient(geminiClient, store)
        datasetId == StoreGet(store, "datasetId", Undefined)
        projectId == StoreGet(store, "projectId", Undefined)
        call      == [pc |-> "getTables", bq |-> bq.value, ai |-> ai.value,
                      datasetId |-> datasetId, projectId |-> projectId,
                      question |-> userQuestion, tables |-> <<>>, next |-> 0,
                      prompt |-> Null, sql |-> <<>>,
                      changed |-> bigqueryClient = Null \/ geminiClient = Null]
    IN  /\ queryCall = Null
        /\ IF bq.threw
           THEN /\ reply' = QueryFailed(bq.error, FALSE)
                /\ UNCHANGED <<bigqueryClient, geminiClient, queryCall, ensured>>
           ELSE /\ bigqueryClient' = bq.value
                /\ IF ai.threw
                   THEN /\ reply' = QueryFailed(ai.error, bigqueryClient = Null)
                        /\ UNCHANGED <<geminiClient, queryCall, ensured>>
                   ELSE /\ geminiClient' = ai.value
                        /\ IF DatasetMissing(datasetId)
                           THEN /\ reply' = QueryFailed(MsgNoDatasetQuery, call.changed)
                                /\ UNCHANGED <<queryCall, ensured>>
                           ELSE /\ MaySuspend
                                /\ reply' = NoReply
                                /\ IF DOMAIN tableSchemaCache = {}
                                   THEN /\ queryCall' = call
                                        /\ UNCHANGED ensured
                                   ELSE /\ queryCall' =
                                             [call EXCEPT !.pc = "generateContent",
                                                  !.prompt = Prompt(tableSchemaCache, projectId,
                                                                    datasetId, userQuestion)]
                                        /\ ensured' = TRUE
        /\ renderer' = Delivered(Taken(renderer), reply')
        /\ UNCHANGED <<normalized, opened, store, tableSchemaCache, oauthCall, testCall>>

\* the loop over the listed tables is over: build the prompt, call the model
StartGenerate(call, cache) ==
    [call EXCEPT !.pc = "generateContent",
                 !.prompt = Prompt(cache, call.projectId, call.datasetId, call.question)]

QueryGetTablesResolves ==
    /\ queryCall # Null
    /\ queryCall.pc = "getTables"
    /\ LET tables == TablesOf(queryCall.datasetId)
       IN  IF Len(tables) = 0
           THEN /\ queryCall' = StartGenerate(queryCall, tableSchemaCache)
                /\ ensured' = TRUE
           ELSE /\ queryCall' = [queryCall EXCEPT !.pc = "getMetadata", !.tables = tables,
                                                  !.next = 1]
                /\ UNCHANGED ensured
    /\ reply' = NoReply
    /\ renderer' = Delivered(renderer, reply')
    /\ UNCHANGED <<normalized, opened, store, bigqueryClient, geminiClient, tableSchemaCache, oauthCall, testCall>>

QueryGetMetadataResolves ==
    /\ queryCall # Null
    /\ queryCall.pc = "getMetadata"
    /\ LET tableId == queryCall.tables[queryCall.next]
           cache   == CachePut(tableSchemaCache, tableId,
                               FieldsOf(queryCall.datasetId, tableId))
           call    == [queryCall EXCEPT !.changed = @ \/ cache # tableSchemaCache]
       IN  /\ tableSchemaCache' = cache
           /\ IF queryCall.next = Len(queryCall.tables)
              THEN /\ queryCall' = StartGenerate(call, cache)
                   /\ ensured' = TRUE
              ELSE /\ queryCall' = [call EXCEPT !.next = @ + 1]
                   /\ UNCHANGED ensured
    /\ reply' = NoReply
    /\ renderer' = Delivered(renderer, reply')
    /\ UNCHANGED <<normalized, opened, store, bigqueryClient, geminiClient, oauthCall, testCall>>

\* the settlement of generateContent without the trim() of main.js:287
GenerateContentResolvesUntrimmed(text) ==
    /\ queryCall # Null
    /\ queryCall.pc = "generateContent"
    /\ LET sql == text
       IN  IF sql = Sentinel
           THEN /\ reply' = QueryUnanswerable(queryCall.changed)
                /\ queryCall' = Null
           ELSE /\ queryCall' = [queryCall EXCEPT !.pc = "query", !.sql = sql]
                /\ reply' = NoReply
    /\ renderer' = Delivered(renderer, reply')
    /\ UNCHANGED <<normalized, opened, store, bigqueryClient, geminiClient, tableSchemaCache, oauthCall,
                   testCall, ensured>>

GenerateContentResolves(text) ==
    /\ queryCall # Null
    /\ queryCall.pc = "generateContent"
    /\ LET sql == Trim(text)
       IN  IF sql = Sentinel
           THEN /\ reply' = QueryUnanswerable(queryCall.changed)
                /\ queryCall' = Null
           ELSE /\ queryCall' = [queryCall EXCEPT !.pc = "query", !.sql = sql]
                /\ reply' = NoReply
    /\ renderer' = Delivered(renderer, reply')
    /\ UNCHANGED <<normalized, opened, store, bigqueryClient, geminiClient, tableSchemaCache, oauthCall,
                   testCall, ensured>>

QueryResolves(rows) ==
    /\ queryCall # Null
    /\ queryCall.pc = "query"
    /\ reply' = QueryAnswered(queryCall.sql, rows, queryCall.changed)
    /\ queryCall' = Null
    /\ renderer' = Delivered(renderer, reply')
    /\ UNCHANGED <<normalized, opened, store, bigqueryClient, geminiClient, tableSchemaCache, oauthCall,
                   testCall, ensured>>

\* a rejected generateContent answered by calling the model again
QueryRemoteRejectsRetrying(msg) ==
    /\ queryCall # Null
    /\ msg \in (IF queryCall.pc = "generateContent" THEN ModelErrors ELSE WarehouseErrors)
    /\ IF queryCall.pc = "generateContent"
       THEN /\ reply' = [op |-> "retry"]
            /\ UNCHANGED queryCall
       ELSE /\ reply' = QueryFailed(msg, queryCall.changed)
            /\ queryCall' = Null
    /\ renderer' = Delivered(renderer, reply')
    /\ UNCHANGED <<normalized, opened, store, bigqueryClient, geminiClient, tableSchemaCache, oauthCall,
                   testCall, ensured>>

\* getTables, getMetadata, generateContent or query rejects
QueryRemoteRejects(msg) ==
    /\ queryCall # Null
    /\ msg \in (IF queryCall.pc = "generateContent" THEN ModelErrors ELSE WarehouseErrors)
    /\ reply' = QueryFailed(msg, queryCall.changed)
    /\ queryCall' = Null
    /\ renderer' = Delivered(renderer, reply')
    /\ UNCHANGED <<normalized, opened, store, bigqueryClient, geminiClient, tableSchemaCache, oauthCall,
                   testCall, ensured>>

(***************************************************************************)
(* The main process from a fresh installation.                             *)
(***************************************************************************)
Next ==
    \/ ConfigLoad
    \/ \E config \in ConfigPayloads : ConfigSave(config)
    \/ \E result \in DialogResults : PickJsonFile(result)
    \/ BrowserLogin
    \/ \E code \in OauthCodes : SubmitOauthCode(code)
    \/ GetTokenResolves
    \/ \E msg \in OauthErrors : GetTokenRejects(msg)
    \/ TestConnection
    \/ TestGetTablesResolves
    \/ TestGetMetadataResolves
    \/ \E msg \in WarehouseErrors : TestRemoteRejects(msg)
    \/ \E userQuestion \in Questions : AgentQuery(userQuestion)
    \/ QueryGetTablesResolves
    \/ QueryGetMetadataResolves
    \/ \E text \in ModelOutputs : GenerateContentResolves(text)
    \/ \E rows \in QueryResults : QueryResolves(rows)
    \/ \E msg \in ModelErrors \cup WarehouseErrors : QueryRemoteRejects(msg)

Spec == Init /\ [][Next]_vars

(***************************************************************************)
(* The main process started on a store that already holds an OAuth client  *)
(* id and secret (the store is a file that outlives the process, and       *)
(* auth:browserLogin reads both keys from it).                             *)
(***************************************************************************)
ProvisionedStore ==
    [EmptyStore EXCEPT !.oauthClientId = Str(<<"id">>),
                       !.oauthClientSecret = Str(<<"secret">>)]

InitProvisioned ==
    /\ store = ProvisionedStore
    /\ bigqueryClient = Null
    /\ geminiClient = Null
    /\ tableSchemaCache = EmptyCache
    /\ oauthCall = Null
    /\ testCall = Null
    /\ queryCall = Null
    /\ ensured = FALSE
    /\ opened = <<>>
    /\ normalized = NotNormalizing
    /\ renderer = Detached
    /\ reply = NoReply

SpecProvisioned == InitProvisioned /\ [][Next]_vars

(***************************************************************************)
(* shell:openExternal.  The handler reads and writes nothing of the state  *)
(* above, so it is explored on its own, from the initial state.  A URL is  *)
(* a string held character by character.                                   *)
(***************************************************************************)
HttpsScheme == <<"h", "t", "t", "p", "s", ":", "/", "/">>

\* String.prototype.includes
Includes(s, prefix) ==
    \E i \in 1..(Len(s) - Len(prefix) + 1) : SubSeq(s, i, i + Len(prefix) - 1) = prefix

\* String.prototype.startsWith
StartsWith(s, prefix) ==
    Len(s) >= Len(prefix) /\ SubSeq(s, 1, Len(prefix)) = prefix

Urls ==
    {Str(<<"h", "t", "t", "p", "s", ":", "/", "/", "a", ".", "i", "o">>),
     Str(<<"h", "t", "t", "p", "s", ":", "/", "/">>),
     Str(<<"h", "t", "t", "p", "s", ":", "/", "/", "b", ".", "i", "o", "/", "?", "u", "=", "h", "t", "t", "p", ":", "/", "/", "a", ".", "i", "o">>),
     Str(<<"h", "t", "t", "p", ":", "/", "/", "a", ".", "i", "o">>),
     Str(<<"h", "t", "t", "p", "s", ":", "/", "a", ".", "i", "o">>),
     Str(<<"H", "T", "T", "P", "S", ":", "/", "/", "a", ".", "i", "o">>),
     Str(<<" ", "h", "t", "t", "p", "s", ":", "/", "/", "a", ".", "i", "o">>),
     Str(<<"f", "i", "l", "e", ":", "/", "/", "/", "e", "t", "c">>),
     Str(<<"j", "a", "v", "a", "s", "c", "r", "i", "p", "t", ":", "a", "l", "e", "r", "t", "(", "1", ")">>),
     Str(<<>>),
     Undefined}

MaxOpened == 3

OpenExternal(url) ==
    /\ IF url.type # "string"
       THEN /\ reply' = [op |-> "shell:openExternal", url |-> url, raised |-> TRUE]
            /\ UNCHANGED opened
       ELSE /\ reply' = [op |-> "shell:openExternal", url |-> url, raised |-> FALSE,
                         returned |-> Undefined]
            /\ IF StartsWith(url.val, HttpsScheme)
               THEN /\ Len(opened) < MaxOpened
                    /\ opened' = Append(opened, url)
               ELSE UNCHANGED opened
    /\ UNCHANGED <<renderer, normalized, store, bigqueryClient, geminiClient, tableSchemaCache,
                   oauthCall, testCall, queryCall, ensured>>

NextShell == \E url \in Urls : OpenExternal(url)

SpecShell == Init /\ [][NextShell]_vars

(***************************************************************************)
(* serializeValue on its own.  The function reads nothing but its argument,*)
(* so it is explored on rows drawn from the values a warehouse result can  *)
(* hold; a row may be handed to it again, as when a serialized row is      *)
(* serialized once more.                                                   *)
(***************************************************************************)
BooleanValue(b) == [type |-> "boolean", val |-> <<b>>]

Number(digits) == [type |-> "number", val |-> <<digits>>]

IsoDateString == ToISOString(<<"2024", "05", "01", "09", "30", "00", "000">>)

\* a Date that also carries a "value" property
DateWithValue(parts, inner) == [type |-> "date", val |-> parts, value |-> inner]

\* JSON.stringify of a serialized value, for the transfer to the renderer
ToJson(v) ==
    IF v.type = "null" THEN <<"null">>
    ELSE IF v.type = "string" THEN <<"\"">> \o v.val \o <<"\"">>
    ELSE v.val

\* JSON.parse of such a text
FromJson(t) ==
    IF t = <<"null">> THEN JsNull
    ELSE IF Head(t) = "\"" THEN Str(SubSeq(t, 2, Len(t) - 1))
    ELSE IF t \in {<<"true">>, <<"false">>} THEN BooleanValue(t[1])
    ELSE Number(t[1])

WarehouseValues ==
    {JsNull, Undefined,
     BigIntValue("42"), BigIntValue("9007199254740993"),
     DateValue(<<"2024", "05", "01", "09", "30", "00", "000">>),
     DateWithValue(<<"2024", "05", "01", "09", "30", "00", "000">>, Str(<<"2024-05-01">>)),
     Wrapper(<<"value", "2024-05-01">>, Str(<<"2024-05-01">>)),
     Wrapper(<<"value", "null">>, JsNull),
     Wrapper(<<>>, Undefined),
     Wrapper(<<"value", "7">>, Number("7")),
     Wrapper(<<"value", "{", "a", "1", "}">>, PlainObject(<<"a", "1">>)),
     Wrapper(<<"value", "5n">>, BigIntValue("5")),
     PlainObject(<<"a", "1">>), PlainObject(<<>>),
     Str(<<"sales">>), Str(<<>>), Str(IsoDateString),
     Str(<<"null">>), Str(<<"true">>), Str(<<"7">>),
     Number("7"), Number("0"),
     BooleanValue("true"), BooleanValue("false")}

MaxPasses == 2

NormalizerRows ==
    {<<[k |-> "c1", v |-> a]>> : a \in WarehouseValues}
    \cup {<<[k |-> "c1", v |-> a], [k |-> "c2", v |-> b]>> :
              a \in {JsNull, BigIntValue("42"), Str(<<"sales">>)}, b \in WarehouseValues}

InitNormalizer ==
    /\ store = EmptyStore
    /\ bigqueryClient = Null
    /\ geminiClient = Null
    /\ tableSchemaCache = EmptyCache
    /\ oauthCall = Null
    /\ testCall = Null
    /\ queryCall = Null
    /\ ensured = FALSE
    /\ opened = <<>>
    /\ normalized \in {[passes |-> 0, input |-> row, output |-> row] : row \in NormalizerRows}
    /\ renderer = Detached
    /\ reply = NoReply

\* rows.map(row => { for (const [k, v] of Object.entries(row)) obj[k] = serializeValue(v) })
Normalize ==
    /\ normalized.passes < MaxPasses
    /\ normalized' = [normalized EXCEPT !.passes = @ + 1, !.output = SerializeRow(@)]
    /\ UNCHANGED <<store, bigqueryClient, geminiClient, tableSchemaCache,
                   oauthCall, testCall, queryCall, ensured, opened, renderer, reply>>

NextNormalizer == Normalize

SpecNormalizer == InitNormalizer /\ [][NextNormalizer]_vars

(***************************************************************************)
(* The window (src/src/renderer.js) driving agent:query and                *)
(* agent:testConnection: the question box, the send and test buttons, the  *)
(* example chips and the flag isQuerying.  An invoke is posted by the      *)
(* window, taken by its handler in a later step, and the value the handler *)
(* returns is picked up by the window in a step of its own.                *)
(***************************************************************************)
ConfiguredStore ==
    [EmptyStore EXCEPT !.projectId = Str(<<"proj">>), !.datasetId = Str(DatasetWithTables),
                       !.geminiKey = Str(<<"AIza">>), !.authMethod = Str(<<"apiKey">>)]

\* what the user may type into the question box, and what a chip may carry
QueryTexts ==
    {Str(<<>>), Str(<<" ", "\n">>), Str(<<" ", "How", " ", "many", " ", "calls?", "\n">>)}

InitRenderer ==
    /\ store \in {ConfiguredStore, EmptyStore}
    /\ bigqueryClient = Null
    /\ geminiClient = Null
    /\ tableSchemaCache = EmptyCache
    /\ oauthCall = Null
    /\ testCall = Null
    /\ queryCall = Null
    /\ ensured = FALSE
    /\ opened = <<>>
    /\ normalized = NotNormalizing
    /\ renderer \in {[Detached EXCEPT !.attached = TRUE, !.btnSendDisabled = d] : d \in BOOLEAN}
    /\ reply = NoReply

\* a step of the window leaves the main process as it is
WindowStep ==
    /\ reply' = NoReply
    /\ UNCHANGED <<store, bigqueryClient, geminiClient, tableSchemaCache, oauthCall,
                   testCall, queryCall, ensured, opened, normalized>>

TypeQuestion(text) ==
    /\ renderer.queryInput # text
    /\ renderer' = [renderer EXCEPT !.queryInput = text]
    /\ WindowStep

\* sendQuery without the test of isQuerying
sendQueryWithoutFlag(r) ==
    LET text == Trim(r.queryInput.val)
    IN  IF text = <<>> THEN r
        ELSE [r EXCEPT !.isQuerying = TRUE, !.btnSendDisabled = TRUE,
                       !.queryInput = Str(<<>>), !.yielded = 0,
                       !.asked = Append(@, Str(text))]

\* sendQuery up to its await
sendQuery(r) ==
    LET text == Trim(r.queryInput.val)
    IN  IF text = <<>> \/ r.isQuerying THEN r
        ELSE [r EXCEPT !.isQuerying = TRUE, !.btnSendDisabled = TRUE,
                       !.queryInput = Str(<<>>), !.yielded = 0,
                       !.asked = Append(@, Str(text))]

ClickSend ==
    /\ ~renderer.btnSendDisabled
    /\ renderer' = sendQuery(renderer)
    /\ WindowStep

PressEnter ==
    /\ renderer' = sendQuery(renderer)
    /\ WindowStep

ClickChip(q) ==
    /\ renderer' = sendQuery([renderer EXCEPT !.queryInput = q])
    /\ WindowStep

HandleQuery ==
    /\ renderer.asked # <<>>
    /\ AgentQuery(Head(renderer.asked))

\* sendQuery after its await, with isQuerying left set
SendQueryResumesKeepsFlag ==
    /\ renderer.result # Null
    /\ renderer' = [renderer EXCEPT !.result = Null, !.btnSendDisabled = FALSE]
    /\ WindowStep

\* sendQuery after its await
SendQueryResumes ==
    /\ renderer.result # Null
    /\ renderer' = [renderer EXCEPT !.result = Null, !.isQuerying = FALSE,
                                    !.btnSendDisabled = FALSE]
    /\ WindowStep

\* testConnection up to its await
ClickTest ==
    /\ ~renderer.btnTestDisabled
    /\ renderer' = [renderer EXCEPT !.btnTestDisabled = TRUE, !.testAsked = TRUE]
    /\ WindowStep

HandleTestConnection ==
    /\ renderer.testAsked
    /\ TestConnection

\* testConnection after its await
TestConnectionResumes ==
    /\ renderer.testResult # Null
    /\ renderer' = [renderer EXCEPT !.testResult = Null,
                                    !.btnSendDisabled = ~renderer.testResult.ok,
                                    !.btnTestDisabled = FALSE]
    /\ WindowStep

\* a remote call of the question turn returns or fails
QuerySettles ==
    \/ QueryGetTablesResolves
    \/ QueryGetMetadataResolves
    \/ \E text \in ModelOutputs : GenerateContentResolves(text)
    \/ \E rows \in QueryResults : QueryResolves(rows)
    \/ \E msg \in WarehouseErrors \cup ModelErrors : QueryRemoteRejects(msg)

\* a remote call of the connectivity check returns or fails
TestSettles ==
    \/ TestGetTablesResolves
    \/ TestGetMetadataResolves
    \/ \E msg \in WarehouseErrors : TestRemoteRejects(msg)

NextRenderer ==
    \/ \E text \in QueryTexts : TypeQuestion(text)
    \/ ClickSend
    \/ PressEnter
    \/ \E q \in QueryTexts : ClickChip(q)
    \/ HandleQuery
    \/ QuerySettles
    \/ SendQueryResumes
    \/ ClickTest
    \/ HandleTestConnection
    \/ TestSettles
    \/ TestConnectionResumes

SpecRenderer == InitRenderer /\ [][NextRenderer]_vars

\* ipcMain runs the handler of a posted invoke, every remote call of the turn
\* settles, and the window runs the continuation of a settled await
SpecRendererFair ==
    /\ SpecRenderer
    /\ WF_vars(HandleQuery)
    /\ WF_vars(QuerySettles)
    /\ WF_vars(SendQueryResumes)

(***************************************************************************)
(* Properties.                                                             *)
(***************************************************************************)
CacheIsEmpty(cache) == DOMAIN cache = {}

\* C1: every config:save that returns leaves the client handle absent and
\* the schema cache empty, both reset by that one step.
SaveResetsClientAndCache ==
    [][(reply'.op = "config:save" /\ ~reply'.raised)
         => (bigqueryClient' = Null /\ CacheIsEmpty(tableSchemaCache'))]_vars

SaveHasResetPopulatedState ==
    /\ reply.op = "config:save"
    /\ ~reply.raised
    /\ bigqueryClient = Null
    /\ CacheIsEmpty(tableSchemaCache)
    /\ queryCall # Null
    /\ queryCall.pc = "generateContent"
    /\ ~CacheIsEmpty(queryCall.prompt.schema)

\* the reply of a handler that has written a credential-relevant field
CredentialWriteReplied(r) ==
    \/ r.op = "config:save" /\ ~r.raised
    \/ r.op \in {"auth:pickJsonFile", "auth:browserLogin", "auth:submitOauthCode"} /\ r.ok

\* C2: every configuration write that touches a credential-relevant field
\* (a returned config:save, an accepted key file, a started browser
\* sign-in, an exchanged authorization code) leaves the client handle and
\* the schema cache both empty, and no step invalidates the client without
\* emptying the cache.
CredentialWritesInvalidateBoth ==
    [][/\ CredentialWriteReplied(reply')
          => (bigqueryClient' = Null /\ CacheIsEmpty(tableSchemaCache'))
       /\ (bigqueryClient # Null /\ bigqueryClient' = Null)
          => CacheIsEmpty(tableSchemaCache')]_vars

WholeListing(datasetId) ==
    LET tables == TablesOf(datasetId)
    IN  [t \in {tables[i] : i \in 1..Len(tables)} |-> FieldsOf(datasetId, t)]

RefreshStepIsAllOrNothing(call) ==
    (call # Null /\ call.pc \in {"getTables", "getMetadata"} /\ call' # call)
        => \/ tableSchemaCache' = tableSchemaCache
           \/ tableSchemaCache' = WholeListing(call.datasetId)

\* C4: a step of a schema refresh (the settlement of getTables or of a
\* getMetadata, in a question turn or in the connectivity check) either
\* leaves the cache as it is or installs the whole new listing; no step
\* leaves only some of the listed tables in it.
RefreshIsAllOrNothing ==
    [][RefreshStepIsAllOrNothing(testCall) /\ RefreshStepIsAllOrNothing(queryCall)]_vars

\* C5: once a question turn has finished schema discovery, and until a
\* config:save empties the cache, no later question turn lists the tables
\* again, whatever the dataset holds.
SecondTurnDoesNotList ==
    [][(queryCall = Null /\ queryCall' # Null /\ queryCall'.pc = "getTables")
         => ~ensured]_vars

\* the step in which agent:query is invoked
QuestionSubmitted == queryCall = Null /\ (queryCall' # Null \/ reply'.op = "agent:query")

NoDataset == ~Truthy(StoreGet(store, "datasetId", Undefined))

\* C6: a question submitted while datasetId is absent is answered ok:false
\* with an error that mentions the dataset, without calling the model or
\* the warehouse, whatever the other settings are.
NoDatasetAlwaysNamesDataset ==
    [][(QuestionSubmitted /\ NoDataset)
         => /\ queryCall' = Null
            /\ ~reply'.ok
            /\ Mentions(reply'.error.val, "dataset")]_vars

\* C6 as amended: such a question is answered ok:false without calling the
\* model or the warehouse, whatever the other settings are; the error
\* mentions the dataset exactly when the warehouse client and the model
\* client could both be obtained.
NoDatasetFailsBeforeRemoteCalls ==
    [][(QuestionSubmitted /\ NoDataset)
         => /\ queryCall' = Null
            /\ ~reply'.ok
            /\ Mentions(reply'.error.val, "dataset")
                 <=> (/\ ~GetBigQueryClient(bigqueryClient, store).threw
                      /\ ~GetGeminiClient(geminiClient, store).threw)]_vars

NoDatasetReported ==
    /\ reply.op = "agent:query"
    /\ ~reply.ok
    /\ reply.error = Str(MsgNoDatasetQuery)
    /\ NoDataset
    /\ queryCall = Null

\* C7: a question turn or connectivity check that returns ok:false has not
\* altered the client handle, the model client or the schema cache.
FailedCallLeavesSharedState ==
    [][(reply'.op \in {"agent:query", "agent:testConnection"} /\ ~reply'.ok)
         => ~reply'.changed]_vars

\* picked files that parse and declare no type or another type
WrongTypeResults ==
    {r \in DialogResults :
        /\ ~r.canceled
        /\ Len(r.filePaths) > 0
        /\ r.filePaths[1].readable
        /\ JsonParses(r.filePaths[1].text)
        /\ JsonField(r.filePaths[1].text, "type") # Str(<<"service_account">>)}

\* C8: picking a key file whose document declares another type than
\* service_account, or none, is answered ok:false with an error and leaves
\* the store and the cached clients as they were.
WrongTypeRejected ==
    [][\A r \in WrongTypeResults :
          PickJsonFile(r) => /\ ~reply'.ok
                             /\ reply'.error # Undefined
                             /\ UNCHANGED <<store, bigqueryClient, geminiClient,
                                            tableSchemaCache>>]_vars

WrongTypeRejectedWithClientCached ==
    /\ reply.op = "auth:pickJsonFile"
    /\ reply.error = Str(MsgInvalidKeyFile)
    /\ bigqueryClient # Null
    /\ store.authMethod = Str(<<"apiKey">>)

\* picked files that declare the service_account type
AcceptedResults ==
    {r \in DialogResults :
        /\ ~r.canceled
        /\ Len(r.filePaths) > 0
        /\ r.filePaths[1].readable
        /\ IsObjectText(r.filePaths[1].text)
        /\ JsonField(r.filePaths[1].text, "type") = Str(<<"service_account">>)}

\* C9: an accepted key file is stored as serviceAccountJson, authMethod
\* becomes serviceAccount and the client handle is dropped, so that the
\* next getBigQueryClient builds a service-account client from that file.
AcceptedKeyFileTakesOver ==
    [][\A r \in AcceptedResults :
          PickJsonFile(r) =>
            LET raw == Str(r.filePaths[1].text)
            IN  /\ reply'.ok
                /\ store'.serviceAccountJson = raw
                /\ store'.authMethod = Str(<<"serviceAccount">>)
                /\ bigqueryClient' = Null
                /\ Truthy(store'.projectId)
                     => GetBigQueryClient(bigqueryClient', store')
                          = Returned(ServiceAccountClient(store'.projectId, raw))]_vars

KeyFileAccepted ==
    /\ reply.op = "auth:pickJsonFile"
    /\ reply.ok
    /\ reply.email = Str(<<"a@proj">>)
    /\ Truthy(store.projectId)
    /\ store.oauthTokens # Undefined
    /\ bigqueryClient = Null

\* C10: an authorization code submitted while no pendingOauthClient is
\* stored is answered ok:false with an error, and stores no tokens, leaves
\* authMethod and keeps the client handle, whatever getToken answers.
CodeWithoutSignInRejected ==
    [][(reply'.op = "auth:submitOauthCode" /\ reply'.pending = Undefined)
         => /\ ~reply'.ok
            /\ reply'.error # Undefined
            /\ UNCHANGED <<store, bigqueryClient>>]_vars

\* the step in which agent:testConnection is invoked
TestStarted == testCall = Null /\ (testCall' # Null \/ reply'.op = "agent:testConnection")

ActiveMethod(st) == StoreGet(st, "authMethod", Str(<<"serviceAccount">>))

\* the active method's required credential material is not stored
MaterialMissing(st) ==
    \/ ActiveMethod(st) = Str(<<"serviceAccount">>) /\ ~Truthy(st.serviceAccountJson)
    \/ ActiveMethod(st) = Str(<<"browser">>) /\ ~Truthy(st.oauthTokens)

\* the store with the credential fields of the inactive methods erased
InactiveErased(st) ==
    IF ActiveMethod(st) = Str(<<"serviceAccount">>)
    THEN [st EXCEPT !.oauthTokens = Undefined, !.pendingOauthClient = Undefined,
                    !.oauthClientId = Undefined, !.oauthClientSecret = Undefined]
    ELSE IF ActiveMethod(st) = Str(<<"browser">>)
    THEN [st EXCEPT !.serviceAccountJson = Undefined]
    ELSE [st EXCEPT !.serviceAccountJson = Undefined, !.oauthTokens = Undefined,
                    !.pendingOauthClient = Undefined, !.oauthClientId = Undefined,
                    !.oauthClientSecret = Undefined]

\* C11: a handler that asks for the warehouse client while none is cached
\* fails with the project-id error when projectId is absent; otherwise it
\* fails with the not-configured error of the active method exactly when
\* that method's material is absent (nothing is required for apiKey); a
\* failure caches no client, and the client built is the one built from the
\* store with the inactive methods' credential fields erased.
GetClientContract ==
    [][(bigqueryClient = Null /\ (TestStarted \/ QuestionSubmitted))
         => IF ~Truthy(store.projectId)
            THEN /\ ~reply'.ok
                 /\ reply'.error = Str(MsgNoProject)
                 /\ bigqueryClient' = Null
            ELSE IF MaterialMissing(store)
            THEN /\ ~reply'.ok
                 /\ reply'.error =
                        (IF ActiveMethod(store) = Str(<<"browser">>)
                         THEN Str(MsgNoBrowserAuth) ELSE Str(MsgNoServiceAccount))
                 /\ bigqueryClient' = Null
            ELSE /\ bigqueryClient' # Null
                 /\ Returned(bigqueryClient') = NewBigQueryClient(InactiveErased(store))]_vars

\* the browser method is active with no tokens while a key file is stored
BrowserMethodWithoutTokensRefused ==
    /\ reply.op = "agent:testConnection"
    /\ ~reply.ok
    /\ reply.error = Str(MsgNoBrowserAuth)
    /\ Truthy(store.serviceAccountJson)
    /\ bigqueryClient = Null

\* C12: when the trimmed output of the model is exactly the sentinel, the
\* turn ends there with ok:true, sql null, no rows, no columns and a
\* non-empty message, and bq.query is not called; any other output, trimmed,
\* is the text handed to bq.query.
SentinelEndsTurnElseExecuted ==
    [][\A text \in ModelOutputs :
          GenerateContentResolves(text) =>
            IF Trim(text) = Sentinel
            THEN /\ queryCall' = Null
                 /\ reply'.op = "agent:query"
                 /\ reply'.ok
                 /\ reply'.sql = JsNull
                 /\ reply'.rows = <<>>
                 /\ reply'.columns = <<>>
                 /\ reply'.message.type = "string"
                 /\ reply'.message.val # <<>>
            ELSE /\ reply' = NoReply
                 /\ queryCall' # Null
                 /\ queryCall'.pc = "query"
                 /\ queryCall'.sql = Trim(text)]_vars

SentinelAnswered ==
    /\ reply.op = "agent:query"
    /\ reply.ok
    /\ reply.sql = JsNull
    /\ reply.message = Str(MsgCannotAnswer)
    /\ queryCall = Null
    /\ ~CacheIsEmpty(tableSchemaCache)

\* a property the envelope carries with a string in it
Present(r, k) == k \in DOMAIN r /\ r[k].type = "string"

\* ok:false, error present, sql null
ErrorEnvelope(r) ==
    /\ ~r.ok
    /\ Present(r, "error")
    /\ r.sql = JsNull

\* ok:true, message present, no rows, no columns, sql null
MessageEnvelope(r) ==
    /\ r.ok
    /\ Present(r, "message")
    /\ r.rows = <<>>
    /\ r.columns = <<>>
    /\ r.sql = JsNull

\* ok:true, message null, sql the text handed to bq.query, rows and columns
\* those of a result of bq.query
RowsEnvelope(r, call) ==
    /\ r.ok
    /\ r.message = JsNull
    /\ r.sql = Str(call.sql)
    /\ \E rows \in QueryResults :
          /\ r.rows = [i \in 1..Len(rows) |-> SerializeRow(rows[i])]
          /\ r.columns = ColumnsOf(rows)

\* C13: every envelope a question turn returns has exactly one of the three
\* forms (error; message with nothing else; rows of the executed query),
\* none carries both an error and a message, and none is ok:true with an
\* error.
EnvelopeHasOneForm ==
    [][reply'.op = "agent:query"
         => /\ (IF ErrorEnvelope(reply') THEN 1 ELSE 0)
               + (IF MessageEnvelope(reply') THEN 1 ELSE 0)
               + (IF RowsEnvelope(reply', queryCall) THEN 1 ELSE 0) = 1
            /\ ~(Present(reply', "error") /\ Present(reply', "message"))
            /\ ~(reply'.ok /\ Present(reply', "error"))]_vars

\* a query that returned no row: ok:true with no rows and no message
EmptyResultAnswered ==
    /\ reply.op = "agent:query"
    /\ reply.ok
    /\ reply.message = JsNull
    /\ reply.rows = <<>>
    /\ reply.sql = Str(<<"SELECT", " ", "1">>)

\* the first eight characters are h t t p s : / /
BeginsWithHttps(u) ==
    /\ Len(u) >= 8
    /\ <<u[1], u[2], u[3], u[4], u[5], u[6], u[7], u[8]>> = HttpsScheme

\* C14: shell:openExternal hands a URL to the external browser exactly when
\* it begins with https://, and then that URL as it is; for every other
\* URL nothing is opened; in both cases the handler returns nothing.
OpensOnlyHttps ==
    [][\A url \in Urls :
          (url.type = "string" /\ OpenExternal(url))
            => /\ IF BeginsWithHttps(url.val)
                  THEN opened' = Append(opened, url)
                  ELSE opened' = opened
               /\ ~reply'.raised
               /\ reply'.returned = Undefined]_vars

\* an https URL was opened and then an upper-case HTTPS URL was not
HttpsOpenedOtherRefused ==
    /\ Len(opened) = 1
    /\ BeginsWithHttps(opened[1].val)
    /\ reply.op = "shell:openExternal"
    /\ reply.url = Str(<<"H", "T", "T", "P", "S", ":", "/", "/", "a", ".", "i", "o">>)

\* C15: no handler raises to its invoker: every call either suspends or
\* returns a value, whatever its payload and whatever the remote calls do.
NoHandlerRaises == "raised" \in DOMAIN reply => ~reply.raised

\* C16: a connectivity check that returns ok:true returns the names of the
\* tables its listing of the dataset gave, and leaves the schema cache
\* holding exactly those tables, whatever the cache held before.
CheckLeavesExactlyListedTables ==
    [][(reply'.op = "agent:testConnection" /\ reply'.ok)
         => /\ reply'.tables = TablesOf(testCall.datasetId)
            /\ DOMAIN tableSchemaCache'
                 = {reply'.tables[i] : i \in 1..Len(reply'.tables)}]_vars

\* the steps of a question turn, in the order of the handler's code
StepRank(pc) ==
    CASE pc = "getTables" -> 1
      [] pc = "getMetadata" -> 2
      [] pc = "generateContent" -> 3
      [] pc = "query" -> 4

\* C17: a question turn goes through its steps in order and once: it starts
\* a remote call only with both clients resolved; the model is called only
\* when the cache was populated already or the listing and every metadata
\* fetch of the turn have resolved; the query is executed only after the
\* model returned a text other than the sentinel; no step is entered twice;
\* and a rejected remote call or an ok:false reply ends the turn.
TurnStepsInOrderOnce ==
    [][/\ (queryCall = Null /\ queryCall' # Null)
          => /\ bigqueryClient' # Null
             /\ geminiClient' # Null
             /\ \/ queryCall'.pc = "getTables" /\ CacheIsEmpty(tableSchemaCache)
                \/ queryCall'.pc = "generateContent" /\ ~CacheIsEmpty(tableSchemaCache)
       /\ (queryCall # Null /\ queryCall' # Null /\ queryCall' # queryCall)
          => /\ \/ StepRank(queryCall'.pc) > StepRank(queryCall.pc)
                \/ /\ queryCall.pc = "getMetadata"
                   /\ queryCall'.pc = "getMetadata"
                   /\ queryCall'.next = queryCall.next + 1
             /\ queryCall'.pc = "getMetadata" => queryCall'.next <= Len(queryCall'.tables)
             /\ queryCall'.pc = "generateContent"
                  => \/ queryCall.pc = "getTables" /\ Len(TablesOf(queryCall.datasetId)) = 0
                     \/ queryCall.pc = "getMetadata" /\ queryCall.next = Len(queryCall.tables)
             /\ queryCall'.pc = "query"
                  => /\ queryCall.pc = "generateContent"
                     /\ queryCall'.sql # Sentinel
       /\ (reply'.op = "agent:query" /\ ~reply'.ok) => queryCall' = Null
       /\ \A msg \in ModelErrors \cup WarehouseErrors :
            QueryRemoteRejects(msg) => (queryCall' = Null /\ ~reply'.ok)]_vars

\* a turn that listed, fetched both tables, called the model and now awaits
\* bq.query
TurnReachedQueryAfterDiscovery ==
    /\ queryCall # Null
    /\ queryCall.pc = "query"
    /\ queryCall.tables = <<"calls", "queues">>
    /\ queryCall.next = 2
    /\ queryCall.sql = <<"SELECT", " ", "1">>
    /\ DOMAIN queryCall.prompt.schema = {"calls", "queues"}

\* the turn in flight is past schema discovery
PastDiscovery(call) == call # Null /\ call.pc \in {"generateContent", "query"}

\* C18: a question turn that reaches schema discovery with a non-empty
\* cache goes straight to the model: it makes no getTables and no
\* getMetadata call, its prompt lists exactly the cached tables with their
\* cached columns, and no step of the turn, from there to its reply, alters
\* the cache.
PopulatedCacheUsedAsIs ==
    [][/\ (queryCall = Null /\ queryCall' # Null /\ ~CacheIsEmpty(tableSchemaCache))
          => /\ queryCall'.pc = "generateContent"
             /\ queryCall'.tables = <<>>
             /\ tableSchemaCache' = tableSchemaCache
             /\ DOMAIN queryCall'.prompt.schema = DOMAIN tableSchemaCache
             /\ \A t \in DOMAIN tableSchemaCache :
                   queryCall'.prompt.schema[t].cols = tableSchemaCache[t]
       /\ (PastDiscovery(queryCall) /\ queryCall' # queryCall)
          => /\ tableSchemaCache' = tableSchemaCache
             /\ queryCall' = Null \/ PastDiscovery(queryCall')]_vars

\* a turn that found only one of the two tables cached and prompts with it
TurnPromptsWithCachedTable ==
    /\ queryCall # Null
    /\ queryCall.pc = "generateContent"
    /\ queryCall.datasetId = Str(DatasetWithTables)
    /\ queryCall.tables = <<>>
    /\ DOMAIN queryCall.prompt.schema = {"calls"}
    /\ DOMAIN tableSchemaCache = {"calls"}

\* the messages the remote call awaited at pc can fail with
RemoteErrorsAt(pc) == IF pc = "generateContent" THEN ModelErrors ELSE WarehouseErrors

\* C19: when the remote call a question turn awaits (getTables,
\* getMetadata, generateContent or query) rejects, the turn replies
\* ok:false with the rejection's message unchanged as error and with sql
\* null, also when the rejected call is the query whose text was generated.
RemoteFailureSurfacedVerbatim ==
    [][/\ \A msg \in ModelErrors \cup WarehouseErrors :
            QueryRemoteRejects(msg)
              => /\ reply'.op = "agent:query"
                 /\ ~reply'.ok
                 /\ reply'.error = Str(msg)
                 /\ reply'.sql = JsNull
       /\ (queryCall # Null /\ queryCall' = Null /\ ~reply'.ok)
            => /\ reply'.error.val \in RemoteErrorsAt(queryCall.pc)
               /\ reply'.sql = JsNull]_vars

\* bq.query failed after the query text was generated: the cache is
\* populated, so the warehouse message can only be that of bq.query
QueryFailureSurfaced ==
    /\ reply.op = "agent:query"
    /\ ~reply.ok
    /\ reply.error \in {Str(m) : m \in WarehouseErrors}
    /\ reply.sql = JsNull
    /\ queryCall = Null
    /\ ensured
    /\ ~CacheIsEmpty(tableSchemaCache)

\* C20: when bq.query resolves, the envelope's columns are the keys of the
\* first row of the result in their order (none for an empty result), its
\* rows are as many as the result's and in the same order, and each row
\* has the keys of the row it came from, each with the value serializeValue
\* gives for the original value.
RowsAndColumnsFollowResult ==
    [][\A rows \in QueryResults :
          QueryResolves(rows)
            => /\ reply'.ok
               /\ IF rows = <<>>
                  THEN reply'.columns = <<>>
                  ELSE /\ Len(reply'.columns) = Len(rows[1])
                       /\ \A j \in 1..Len(rows[1]) : reply'.columns[j] = rows[1][j].k
               /\ Len(reply'.rows) = Len(rows)
               /\ \A i \in 1..Len(rows) :
                    /\ Len(reply'.rows[i]) = Len(rows[i])
                    /\ \A j \in 1..Len(rows[i]) :
                         /\ reply'.rows[i][j].k = rows[i][j].k
                         /\ reply'.rows[i][j].v = serializeValue(rows[i][j].v)]_vars

\* a result of two rows with different keys was returned
TwoRowsReturned ==
    /\ reply.op = "agent:query"
    /\ reply.ok
    /\ Len(reply.rows) = 2
    /\ reply.columns = <<"queue", "n">>
    /\ reply.rows[1][2].v = [type |-> "number", val |-> <<"7">>]
    /\ reply.rows[2][2].k = "extra"

\* the six rules of the normalizer, in the order they are listed
RuleApplies(n, v) ==
    CASE n = 1 -> v.type \in {"null", "undefined"}
      [] n = 2 -> v.type = "bigint"
      [] n = 3 -> v.type = "date"
      [] n = 4 -> /\ v.type \in {"object", "date"}
                  /\ "value" \in DOMAIN v
                  /\ v.value.type # "undefined"
      [] n = 5 -> v.type \in {"object", "date"}
      [] n = 6 -> TRUE

RuleResult(n, v) ==
    CASE n = 1 -> JsNull
      [] n = 2 -> Number(IF v.val[1] = "9007199254740993" THEN "9007199254740992"
                         ELSE v.val[1])
      [] n = 3 -> Str(<<v.val[1], "-", v.val[2], "-", v.val[3], "T",
                        v.val[4], ":", v.val[5], ":", v.val[6], ".", v.val[7], "Z">>)
      [] n = 4 -> v.value
      [] n = 5 -> Str(<<"{">> \o v.val \o <<"}">>)
      [] n = 6 -> v

FirstApplicable(v) ==
    CHOOSE n \in 1..6 : RuleApplies(n, v) /\ \A m \in 1..(n - 1) : ~RuleApplies(m, v)

\* C21: the normalizer gives every value the result of the first rule that
\* applies to it, in the order null or absent, big integer, date, object with
\* a defined "value", other object, anything else; the keys of the row are
\* kept in order.
NormalizerFollowsFirstRule ==
    normalized.passes = 1 =>
        /\ Len(normalized.output) = Len(normalized.input)
        /\ \A j \in 1..Len(normalized.input) :
               /\ normalized.output[j].k = normalized.input[j].k
               /\ normalized.output[j].v
                      = RuleResult(FirstApplicable(normalized.input[j].v), normalized.input[j].v)

\* a date that also has a "value" property, and a wrapper whose value is null, normalized
SeveralRulesApplied ==
    /\ normalized.passes = 1
    /\ Len(normalized.input) = 2
    /\ normalized.input[1].v = JsNull
    /\ \/ /\ normalized.input[2].v.type = "date"
          /\ "value" \in DOMAIN normalized.input[2].v
          /\ normalized.output[2].v = Str(IsoDateString)
       \/ /\ normalized.input[2].v = Wrapper(<<"value", "null">>, JsNull)
          /\ normalized.output[2].v = JsNull

PortableTypes == {"null", "string", "boolean", "number"}

\* C22: every value of a serialized row is null, a string, a boolean or an
\* ordinary number, also when a wrapper's "value" is an object or a big
\* integer.
SerializedValuesArePortable ==
    normalized.passes >= 1 =>
        \A j \in 1..Len(normalized.output) : normalized.output[j].v.type \in PortableTypes

\* C23: a value the normalizer has made portable (a string, among them the
\* ISO-8601 string of a date, a number, a boolean or null) is left as it is
\* when normalized again, and putting it into the transfer format and
\* reading it back gives the same value.
NormalizerIdempotentOnPortable ==
    normalized.passes = 2 =>
        \A j \in 1..Len(normalized.input) :
            LET once == serializeValue(normalized.input[j].v)
            IN  once.type \in PortableTypes =>
                    /\ normalized.output[j].v = once
                    /\ FromJson(ToJson(normalized.output[j].v)) = once

\* a date normalized twice is still its ISO-8601 string
DateNormalizedTwice ==
    /\ normalized.passes = 2
    /\ Len(normalized.input) = 1
    /\ normalized.input[1].v = DateValue(<<"2024", "05", "01", "09", "30", "00", "000">>)
    /\ normalized.output[1].v = Str(IsoDateString)

\* C26: every table in the schema cache is a table of the dataset the store
\* names now; a listing or metadata call that was awaited while a config:save
\* emptied the cache does not write tables of the old dataset afterwards.
CacheHoldsCurrentDatasetOnly ==
    LET listed == TablesOf(StoreGet(store, "datasetId", Undefined))
    IN  \A t \in DOMAIN tableSchemaCache : \E i \in 1..Len(listed) : listed[i] = t

\* what the sign-in button saves before it calls auth:browserLogin
SignInConfig ==
    [NoFields EXCEPT !.oauthClientId = Str(<<"id">>), !.oauthClientSecret = Str(<<"secret">>)]

\* auth:browserLogin, called on store st, finds the client id and secret
FindsOauthClient(st) ==
    /\ Truthy(StoreGet(st, "oauthClientId", Str(<<>>)))
    /\ Truthy(StoreGet(st, "oauthClientSecret", Str(<<>>)))

\* C27: once the sign-in button has saved the OAuth client id and secret with
\* config:save, auth:browserLogin finds both in the store, so that it returns
\* ok:true with an authorization URL and persists pendingOauthClient.
SavedOauthClientIsFound ==
    [][ConfigSave(SignInConfig) => FindsOauthClient(store')]_vars

\* C24: when every remote call of a question turn returns or fails, a
\* question the window has sent gets exactly one envelope, and isQuerying
\* is cleared again, so that a later question can be sent.
QuestionTurnCompletes ==
    /\ renderer.isQuerying ~> ~renderer.isQuerying
    /\ [](renderer.yielded <= 1)
    /\ [][renderer.isQuerying /\ ~renderer'.isQuerying => renderer.yielded = 1]_vars

\* a question went through discovery, generation and the query, and the
\* window has rendered its envelope and cleared isQuerying
QuestionAnsweredAndFlagCleared ==
    /\ renderer.attached
    /\ renderer.yielded = 1
    /\ ~renderer.isQuerying
    /\ renderer.result = Null
    /\ ensured
    /\ queryCall = Null

\* the questions that were sent and whose result the window still awaits
Outstanding ==
    Len(renderer.asked) + (IF queryCall # Null THEN 1 ELSE 0)
    + (IF renderer.result # Null THEN 1 ELSE 0)

NonEmptyQuestion(q) == q.type = "string" /\ q.val # <<>> /\ Trim(q.val) = q.val

\* C25: the window invokes agent:query only with a trimmed, non-empty
\* question and never while an earlier question awaits its result, whether
\* sendQuery is reached from the send button, the Enter key or a chip, and
\* also after a connectivity check has enabled the send button again.
OneNonEmptyQuestionAtATime ==
    /\ Outstanding <= 1
    /\ \A i \in 1..Len(renderer.asked) : NonEmptyQuestion(renderer.asked[i])
    /\ (renderer.attached /\ queryCall # Null) => NonEmptyQuestion(queryCall.question)

\* a connectivity check has enabled the send button while a question is in
\* flight, and a new question is typed in the box
SendEnabledDuringQuestion ==
    /\ queryCall # Null
    /\ renderer.isQuerying
    /\ ~renderer.btnSendDisabled
    /\ Trim(renderer.queryInput.val) # <<>>
====
